---- MODULE Spec2Model ----
(***************************************************************************)
(* Model of the facerateAI scoring engine and its page.                    *)
(*                                                                         *)
(*   src/lib/analyzeFace.ts   basic analyzeFace  (4 facets)                *)
(*   src/unnamed/part_000     extended analyzeFace (10 facets)             *)
(*   src/app/page.tsx         Home: handleFileUpload, processImage         *)
(*                                                                         *)
(* A JavaScript number is modelled as a pair <<n, d>>: the exact rational  *)
(* n/d (d > 0, lowest terms), or one of the IEEE specials  NaN = <<0,0>>,  *)
(* +Infinity = <<1,0>>, -Infinity = <<-1,0>>.  Arithmetic is exact on the  *)
(* rationals (no binary rounding, no signed zero) and follows IEEE 754 on  *)
(* the specials.  Math.sqrt is taken to whole-pixel precision, rounded     *)
(* down; it is exact on perfect squares.                                   *)
(***************************************************************************)
EXTENDS Integers, Sequences, FiniteSets, TLC

(***************************************************************************)
(* JavaScript numbers                                                      *)
(***************************************************************************)
RECURSIVE Gcd(_, _)
Gcd(a, b) == IF b = 0 THEN a ELSE Gcd(b, a % b)

IAbs(i) == IF i < 0 THEN -i ELSE i

Sign(i) == IF i < 0 THEN -1 ELSE IF i > 0 THEN 1 ELSE 0

NaN == <<0, 0>>

PosInf == <<1, 0>>

NegInf == <<-1, 0>>

\* the number n/d, d # 0, in lowest terms with a positive denominator
R(n, d) ==
    LET g == Gcd(IAbs(n), IAbs(d))
        s == IF d < 0 THEN -1 ELSE 1
    IN  <<(s * n) \div g, (s * d) \div g>>

Num(i) == <<i, 1>>

IsNaN(a) == a = NaN

IsFinite(a) == a[2] # 0

IsInf(a) == a[2] = 0 /\ a[1] # 0

IsInteger(a) == a[2] = 1

\* a < b, a <= b: false when either side is NaN
Lt(a, b) ==
    /\ ~IsNaN(a)
    /\ ~IsNaN(b)
    /\ IF a = PosInf \/ b = NegInf THEN FALSE
       ELSE IF a = NegInf \/ b = PosInf THEN TRUE
       ELSE a[1] * b[2] < b[1] * a[2]

Le(a, b) == ~IsNaN(a) /\ ~IsNaN(b) /\ (a = b \/ Lt(a, b))

Neg(a) == <<-a[1], a[2]>>

Add(a, b) ==
    IF IsNaN(a) \/ IsNaN(b) THEN NaN
    ELSE IF IsInf(a) THEN (IF IsInf(b) /\ b # a THEN NaN ELSE a)
    ELSE IF IsInf(b) THEN b
    ELSE R(a[1] * b[2] + b[1] * a[2], a[2] * b[2])

Sub(a, b) == Add(a, Neg(b))

Mul(a, b) ==
    IF IsNaN(a) \/ IsNaN(b) THEN NaN
    ELSE IF IsInf(a) \/ IsInf(b)
         THEN (IF a[1] = 0 \/ b[1] = 0 THEN NaN ELSE <<Sign(a[1]) * Sign(b[1]), 0>>)
    ELSE R(a[1] * b[1], a[2] * b[2])

Div(a, b) ==
    IF IsNaN(a) \/ IsNaN(b) THEN NaN
    ELSE IF IsInf(a) THEN (IF IsInf(b) THEN NaN
                           ELSE <<a[1] * (IF b[1] < 0 THEN -1 ELSE 1), 0>>)
    ELSE IF IsInf(b) THEN Num(0)
    ELSE IF b[1] = 0 THEN (IF a[1] = 0 THEN NaN ELSE <<Sign(a[1]), 0>>)
    ELSE R(a[1] * b[2], a[2] * b[1])

MathAbs(a) == <<IAbs(a[1]), a[2]>>

MathMax(a, b) == IF IsNaN(a) \/ IsNaN(b) THEN NaN ELSE IF Lt(a, b) THEN b ELSE a

MathMin(a, b) == IF IsNaN(a) \/ IsNaN(b) THEN NaN ELSE IF Lt(b, a) THEN b ELSE a

\* Math.round: nearest integer, halves towards +Infinity
MathRound(a) == IF IsFinite(a) THEN Num((2 * a[1] + a[2]) \div (2 * a[2])) ELSE a

RECURSIVE IsqrtIn(_, _, _)
IsqrtIn(n, lo, hi) ==
    IF lo >= hi THEN lo
    ELSE LET mid == (lo + hi + 1) \div 2
         IN  IF mid * mid <= n THEN IsqrtIn(n, mid, hi) ELSE IsqrtIn(n, lo, mid - 1)

\* Math.sqrt of a non-negative integer
MathSqrt(n) == Num(IsqrtIn(n, 0, IF n < 1024 THEN 32 ELSE 1024))

(***************************************************************************)
(* Utility functions                                                       *)
(***************************************************************************)
clamp(x, a, b) == MathMax(a, MathMin(x, b))

\* norm without its clamp
norm_unclamped(x, min, max) == Mul(Div(Sub(x, min), Sub(max, min)), Num(100))

norm(x, min, max) == clamp(Mul(Div(Sub(x, min), Sub(max, min)), Num(100)), Num(0), Num(100))

dist(p1, p2) ==
    MathSqrt((p1.x - p2.x) * (p1.x - p2.x) + (p1.y - p2.y) * (p1.y - p2.y))

\* calculateSymmetry without Math.abs on the difference
calculateSymmetry_signed(centerPoint, leftPoint, rightPoint) ==
    LET leftDist == dist(centerPoint, leftPoint)
        rightDist == dist(centerPoint, rightPoint)
        difference == Sub(leftDist, rightDist)
        average == Div(Add(leftDist, rightDist), Num(2))
    IN  IF Lt(Num(0), average)
        THEN Mul(Sub(Num(1), Div(difference, average)), Num(100))
        ELSE Num(100)

calculateSymmetry(centerPoint, leftPoint, rightPoint) ==
    LET leftDist == dist(centerPoint, leftPoint)
        rightDist == dist(centerPoint, rightPoint)
        difference == MathAbs(Sub(leftDist, rightDist))
        average == Div(Add(leftDist, rightDist), Num(2))
    IN  IF Lt(Num(0), average)
        THEN Mul(Sub(Num(1), Div(difference, average)), Num(100))
        ELSE Num(100)

PHI == R(1618, 1000)

\* calculateGoldenRatioScore with maxDeviation 1 for 0.5
calculateGoldenRatioScore_wide(ratio) ==
    LET difference == MathAbs(Sub(ratio, PHI))
        maxDeviation == Num(1)
        score == Mul(MathMax(Num(0), Sub(Num(1), Div(difference, maxDeviation))), Num(100))
    IN  clamp(score, Num(0), Num(100))

calculateGoldenRatioScore(ratio) ==
    LET difference == MathAbs(Sub(ratio, PHI))
        maxDeviation == R(5, 10)
        score == Mul(MathMax(Num(0), Sub(Num(1), Div(difference, maxDeviation))), Num(100))
    IN  clamp(score, Num(0), Num(100))

(***************************************************************************)
(* Landmarks and quality metrics                                           *)
(***************************************************************************)
\* landmark indices read by the basic analyzeFace, in reading order
BasicIdx == <<10, 152, 234, 454, 123, 352, 172, 397, 14>>

\* landmark indices read by the extended analyzeFace, in reading order
ExtendedIdx ==
    BasicIdx \o <<33, 133, 362, 263, 159, 145, 386, 374, 168, 9, 0, 61, 291, 102, 331>>

Range(s) == {s[i] : i \in DOMAIN s}

Modules == {"basic", "extended"}

RequiredIdx(m) == IF m = "basic" THEN Range(BasicIdx) ELSE Range(ExtendedIdx)

\* keypoints[idx] is undefined, so reading .x throws a TypeError
MissingKeypoint(m, keypoints) == \E idx \in RequiredIdx(m) : idx \notin DOMAIN keypoints.pts

getKeypoint(keypoints, idx) == keypoints.pts[idx]

(***************************************************************************)
(* Facet scores                                                            *)
(***************************************************************************)
jawlineScore(jaw_ratio, chin_ratio) ==
    MathRound(Add(Mul(R(7, 10), norm(jaw_ratio, R(60, 100), R(85, 100))),
                  Mul(R(3, 10), norm(chin_ratio, R(8, 100), R(14, 100)))))

cheekbonesScore(cheek_ratio) == MathRound(norm(cheek_ratio, R(95, 100), R(125, 100)))

skinQualityScore(q) ==
    LET sharp == norm(Num(q.sharpness), Num(50), Num(250))
        contr == norm(Num(q.contrast), Num(20), Num(70))
        brightCenter == norm(Num(q.brightness), Num(80), Num(170))
        brightScore == Sub(Num(100), Mul(MathAbs(Sub(brightCenter, Num(50))), Num(2)))
    IN  MathRound(Add(Add(Mul(R(5, 10), sharp), Mul(R(3, 10), contr)),
                      Mul(R(2, 10), clamp(brightScore, Num(0), Num(100)))))

masculinityScore(jaw_ratio, face_ratio) ==
    MathRound(Add(Mul(R(6, 10), norm(jaw_ratio, R(60, 100), R(85, 100))),
                  Mul(R(4, 10), norm(face_ratio, R(65, 100), R(90, 100)))))

\* max deviation of the segments from their mean, scored strictly
proportionScore(segs) ==
    LET n == Len(segs)
        Sum[i \in 0..n] == IF i = 0 THEN Num(0) ELSE Add(Sum[i - 1], segs[i])
        avg == Div(Sum[n], Num(n))
        MaxDev[i \in 1..n] ==
            LET dev == MathAbs(Sub(segs[i], avg))
            IN  IF i = 1 THEN dev ELSE MathMax(MaxDev[i - 1], dev)
    IN  MathRound(MathMax(Num(0), Sub(Num(100), Mul(Div(MaxDev[n], avg), Num(300)))))

\* the warning block with sharpness < 150 for sharpness <= 150
qualityWarnings_strict(q) ==
    LET s1 == IF q.sharpness < 150
              THEN [photo_penalty |-> 15, warnings |-> <<"low_sharpness">>]
              ELSE [photo_penalty |-> 0, warnings |-> <<>>]
        s2 == IF q.brightness < 90 \/ q.brightness > 160
              THEN [photo_penalty |-> s1.photo_penalty + 10,
                    warnings |-> Append(s1.warnings, "bad_brightness")]
              ELSE s1
    IN  IF q.contrast <= 35
        THEN [photo_penalty |-> s2.photo_penalty + 10,
              warnings |-> Append(s2.warnings, "low_contrast")]
        ELSE s2

\* the warning block: the penalty and the tags, in the order the code tests them
qualityWarnings(q) ==
    LET s1 == IF q.sharpness <= 150
              THEN [photo_penalty |-> 15, warnings |-> <<"low_sharpness">>]
              ELSE [photo_penalty |-> 0, warnings |-> <<>>]
        s2 == IF q.brightness < 90 \/ q.brightness > 160
              THEN [photo_penalty |-> s1.photo_penalty + 10,
                    warnings |-> Append(s1.warnings, "bad_brightness")]
              ELSE s1
    IN  IF q.contrast <= 35
        THEN [photo_penalty |-> s2.photo_penalty + 10,
              warnings |-> Append(s2.warnings, "low_contrast")]
        ELSE s2

potentialOf(overall, photo_penalty) ==
    MathRound(clamp(Add(overall, Num(photo_penalty)), Num(0), Num(100)))

overallBasic(jawline, cheekbones, skin_quality, masculinity) ==
    MathRound(Add(Add(Add(Mul(R(30, 100), jawline), Mul(R(25, 100), cheekbones)),
                      Mul(R(20, 100), skin_quality)), Mul(R(25, 100), masculinity)))

overallExtended(s) ==
    MathRound(
        Add(Add(Add(Add(Add(Add(Add(Add(Add(
            Mul(R(15, 100), s.jawline), Mul(R(15, 100), s.cheekbones)),
            Mul(R(15, 100), s.skin_quality)), Mul(R(15, 100), s.masculinity)),
            Mul(R(10, 100), s.symmetry)), Mul(R(5, 100), s.golden_ratio)),
            Mul(R(5, 100), s.facial_thirds)), Mul(R(5, 100), s.facial_fifths)),
            Mul(R(10, 100), s.eye_score)), Mul(R(5, 100), s.nose_score)))

\* the four facets both versions compute from the first nine landmarks
basicFacets(keypoints, q) ==
    LET forehead_top == getKeypoint(keypoints, 10)
        chin_bottom == getKeypoint(keypoints, 152)
        face_left == getKeypoint(keypoints, 234)
        face_right == getKeypoint(keypoints, 454)
        cheek_left == getKeypoint(keypoints, 123)
        cheek_right == getKeypoint(keypoints, 352)
        jaw_left == getKeypoint(keypoints, 172)
        jaw_right == getKeypoint(keypoints, 397)
        mouth_bottom == getKeypoint(keypoints, 14)
        face_width == dist(face_left, face_right)
        face_height == dist(forehead_top, chin_bottom)
        jaw_width == dist(jaw_left, jaw_right)
        cheek_width == dist(cheek_left, cheek_right)
        chin_length == dist(mouth_bottom, chin_bottom)
        jaw_ratio == Div(jaw_width, face_width)
        chin_ratio == Div(chin_length, face_height)
        cheek_ratio == Div(cheek_width, jaw_width)
        face_ratio == Div(face_width, face_height)
    IN  [jawline |-> jawlineScore(jaw_ratio, chin_ratio),
         cheekbones |-> cheekbonesScore(cheek_ratio),
         skin_quality |-> skinQualityScore(q),
         masculinity |-> masculinityScore(jaw_ratio, face_ratio)]

\* overall and potential joined to the facet scores
aggregate(facets, overall, photo_penalty) ==
    [overall |-> overall, potential |-> potentialOf(overall, photo_penalty)] @@ facets

aggregateBasic(f, photo_penalty) ==
    aggregate(f, overallBasic(f.jawline, f.cheekbones, f.skin_quality, f.masculinity),
              photo_penalty)

aggregateExtended(s, photo_penalty) == aggregate(s, overallExtended(s), photo_penalty)

\* the AnalysisResult of the basic version, warnings aside
scoreBasic(keypoints, q) ==
    aggregateBasic(basicFacets(keypoints, q), qualityWarnings(q).photo_penalty)

\* the six further facets of the extended version
extendedFacets(keypoints) ==
    LET forehead_top == getKeypoint(keypoints, 10)
        chin_bottom == getKeypoint(keypoints, 152)
        face_left == getKeypoint(keypoints, 234)
        face_right == getKeypoint(keypoints, 454)
        cheek_left == getKeypoint(keypoints, 123)
        cheek_right == getKeypoint(keypoints, 352)
        jaw_left == getKeypoint(keypoints, 172)
        jaw_right == getKeypoint(keypoints, 397)
        eye_right_outer == getKeypoint(keypoints, 33)
        eye_right_inner == getKeypoint(keypoints, 133)
        eye_left_inner == getKeypoint(keypoints, 362)
        eye_left_outer == getKeypoint(keypoints, 263)
        nose_center == getKeypoint(keypoints, 168)
        nose_base == getKeypoint(keypoints, 9)
        nose_tip == getKeypoint(keypoints, 0)
        mouth_left == getKeypoint(keypoints, 61)
        mouth_right == getKeypoint(keypoints, 291)
        nose_left == getKeypoint(keypoints, 102)
        nose_right == getKeypoint(keypoints, 331)
        face_width == dist(face_left, face_right)
        face_height == dist(forehead_top, chin_bottom)
        eyeSymmetry == calculateSymmetry(nose_center, eye_left_outer, eye_right_outer)
        cheekSymmetry == calculateSymmetry(nose_center, cheek_left, cheek_right)
        jawSymmetry == calculateSymmetry(nose_center, jaw_left, jaw_right)
        faceHeightToWidth == Div(face_height, face_width)
        noseToTopDist == dist(forehead_top, nose_center)
        noseToChinDist == dist(nose_center, chin_bottom)
        upperToLowerFace == Div(noseToTopDist, noseToChinDist)
        faceRatioScore == calculateGoldenRatioScore(faceHeightToWidth)
        verticalRatioScore == calculateGoldenRatioScore(upperToLowerFace)
        upperThird == dist(forehead_top, nose_base)
        midThird == dist(nose_base, nose_tip)
        lowerThird == dist(nose_tip, chin_bottom)
        fifth1 == dist(face_left, eye_right_outer)
        fifth2 == dist(eye_right_outer, eye_right_inner)
        fifth3 == dist(eye_right_inner, eye_left_inner)
        fifth4 == dist(eye_left_inner, eye_left_outer)
        fifth5 == dist(eye_left_outer, face_right)
        leftTiltGood == eye_left_outer.y < eye_left_inner.y
        rightTiltGood == eye_right_outer.y < eye_right_inner.y
        eyeSpacingRatio == Div(fifth3, Div(Add(fifth2, fifth4), Num(2)))
        spacingScore == norm(eyeSpacingRatio, R(8, 10), R(12, 10))
        nose_width == dist(nose_left, nose_right)
        mouth_width == dist(mouth_left, mouth_right)
        noseWidthRatio == Div(nose_width, mouth_width)
        noseFaceRatio == Div(nose_width, face_width)
    IN  [symmetry |->
             MathRound(Div(Add(Add(eyeSymmetry, cheekSymmetry), jawSymmetry), Num(3))),
         golden_ratio |-> MathRound(Div(Add(faceRatioScore, verticalRatioScore), Num(2))),
         facial_thirds |-> proportionScore(<<upperThird, midThird, lowerThird>>),
         facial_fifths |-> proportionScore(<<fifth1, fifth2, fifth3, fifth4, fifth5>>),
         eye_score |->
             MathRound(Add(Mul(R(5, 10), spacingScore),
                           Mul(R(5, 10),
                               IF leftTiltGood /\ rightTiltGood THEN Num(100) ELSE Num(70)))),
         nose_score |->
             MathRound(Add(Mul(R(5, 10), norm(noseWidthRatio, R(6, 10), R(9, 10))),
                           Mul(R(5, 10), norm(noseFaceRatio, R(20, 100), R(30, 100)))))]

\* the AnalysisResult of the extended version, warnings and landmarks aside
scoreExtended(keypoints, q) ==
    aggregateExtended(basicFacets(keypoints, q) @@ extendedFacets(keypoints),
                      qualityWarnings(q).photo_penalty)

(***************************************************************************)
(* analyzeFace after the detector has answered: lines 97-298 of the        *)
(* extended version, 51-141 of the basic one.  It runs without an await.   *)
(* readKeypoints and calledQuality record how far the body got.            *)
(***************************************************************************)
\* a detector that answers only when it is the one caller a created
estimateFaces_byDetector(det, frame) == IF det = "a" THEN frame.faces ELSE <<>>

\* det.estimateFaces(img): the faces the model finds in the frame it was given
estimateFaces(det, frame) == frame.faces

\* getQualityMetrics(img), of ./quality: sharpness, brightness, contrast of the image
getQualityMetrics(img) == img.q

Thrown(message, readKeypoints, calledQuality) ==
    [kind |-> "throw", message |-> message,
     readKeypoints |-> readKeypoints, calledQuality |-> calledQuality]

\* the body once a face is there: landmarks, quality metrics, scores
analyzeFaceFound(m, keypoints, img) ==
    IF MissingKeypoint(m, keypoints) THEN Thrown("TypeError", TRUE, FALSE)
    ELSE LET q == getQualityMetrics(img)
             w == qualityWarnings(q)
         IN  [kind |-> "return",
              readKeypoints |-> TRUE,
              calledQuality |-> TRUE,
              photo_penalty |-> w.photo_penalty,
              value |->
                  IF m = "basic"
                  THEN scoreBasic(keypoints, q) @@ [warnings |-> w.warnings]
                  ELSE scoreExtended(keypoints, q) @@
                       [warnings |-> w.warnings, landmarks |-> keypoints]]

\* the body with the faces.length test moved below getQualityMetrics
analyzeFaceBody_lateTest(m, faces, img) ==
    IF Len(faces) = 0 THEN Thrown("NO_FACE_DETECTED", FALSE, TRUE)
    ELSE analyzeFaceFound(m, faces[1], img)

analyzeFaceBody(m, faces, img) ==
    IF Len(faces) = 0 THEN Thrown("NO_FACE_DETECTED", FALSE, FALSE)
    ELSE analyzeFaceFound(m, faces[1], img)

\* the numeric fields of an AnalysisResult
FacetFields(m) ==
    IF m = "basic" THEN {"jawline", "cheekbones", "skin_quality", "masculinity"}
    ELSE {"jawline", "cheekbones", "skin_quality", "masculinity", "symmetry",
          "golden_ratio", "facial_thirds", "facial_fifths", "eye_score", "nose_score"}

ScoreFields(m) == FacetFields(m) \cup {"overall", "potential"}

(***************************************************************************)
(* Sample faces                                                            *)
(***************************************************************************)
Pt(x, y) == [x |-> x, y |-> y]

\* a frontal face, 40 px wide and 60 px high, with equal thirds and fifths
TemplateFace ==
    (10 :> Pt(25, 5)) @@ (152 :> Pt(25, 65)) @@ (234 :> Pt(5, 30)) @@ (454 :> Pt(45, 30)) @@
    (123 :> Pt(9, 42)) @@ (352 :> Pt(41, 42)) @@ (172 :> Pt(10, 50)) @@ (397 :> Pt(40, 50)) @@
    (14 :> Pt(25, 59)) @@ (33 :> Pt(13, 30)) @@ (133 :> Pt(21, 30)) @@ (362 :> Pt(29, 30)) @@
    (263 :> Pt(37, 30)) @@ (159 :> Pt(17, 28)) @@ (145 :> Pt(17, 32)) @@ (386 :> Pt(33, 28)) @@
    (374 :> Pt(33, 32)) @@ (168 :> Pt(25, 30)) @@ (9 :> Pt(25, 25)) @@ (0 :> Pt(25, 45)) @@
    (61 :> Pt(17, 52)) @@ (291 :> Pt(33, 52)) @@ (102 :> Pt(19, 44)) @@ (331 :> Pt(31, 44))

GoodQuality == [sharpness |-> 200, brightness |-> 120, contrast |-> 50]

Move(face, idx, p) == [face EXCEPT ![idx] = p]

\* one landmark (two for the eye widths) of the template moved
FaceVariants ==
    {TemplateFace,
     Move(TemplateFace, 397, Pt(34, 50)),      \* narrow jaw
     Move(TemplateFace, 397, Pt(45, 50)),      \* wide jaw
     Move(TemplateFace, 454, Pt(59, 30)),      \* wide face
     Move(TemplateFace, 352, Pt(47, 42)),      \* wide cheekbones
     Move(TemplateFace, 14, Pt(25, 55)),       \* long chin
     Move(TemplateFace, 152, Pt(25, 70)),      \* long face
     Move(TemplateFace, 0, Pt(25, 55)),        \* unequal thirds
     Move(TemplateFace, 362, Pt(33, 30)),      \* unequal fifths
     Move(Move(TemplateFace, 133, Pt(21, 36)), 362, Pt(29, 36)),   \* outer corners higher
     Move(TemplateFace, 168, Pt(11, 30)),      \* nose bridge far off the midline
     Move(TemplateFace, 454, Pt(5, 30)),       \* face width 0
     Move(TemplateFace, 152, Pt(25, 5)),       \* face height 0
     Move(TemplateFace, 397, Pt(10, 50)),      \* jaw width 0
     Move(TemplateFace, 168, Pt(25, 65)),      \* nose bridge on the chin
     Move(TemplateFace, 291, Pt(17, 52)),      \* mouth width 0
     Move(Move(TemplateFace, 133, Pt(13, 30)), 362, Pt(37, 30)),   \* both eye widths 0
     Move(Move(TemplateFace, 397, Pt(10, 50)), 352, Pt(9, 42)),    \* jaw and cheek width 0
     [i \in DOMAIN TemplateFace |-> Pt(25, 30)]}                   \* every landmark on one point

\* the mesh has 478 points with refineLandmarks, 468 without
MeshLengths == {478, 468}

ShortLengths == {460, 300, 0}

Keypoints(len, face) == [len |-> len, pts |-> [i \in {j \in DOMAIN face : j < len} |-> face[i]]]

Sharpnesses == {0, 100, 150, 151, 200, 300}

Brightnesses == {0, 89, 90, 120, 160, 161, 255}

Contrasts == {0, 20, 35, 36, 50, 100}

Qualities == [sharpness : Sharpnesses, brightness : Brightnesses, contrast : Contrasts]

BadQuality == [sharpness |-> 100, brightness |-> 200, contrast |-> 20]

Image(faces, q) == [kind |-> "image", faces |-> faces, q |-> q]

Null == [kind |-> "null"]

\* what the detector and the quality analyzer make of an image
FaceLists ==
    {<<>>}
    \cup {<<Keypoints(478, f)>> : f \in FaceVariants}
    \cup {<<Keypoints(n, TemplateFace)>> : n \in MeshLengths \cup ShortLengths}
    \cup {<<Keypoints(478, TemplateFace), Keypoints(478, Move(TemplateFace, 454, Pt(5, 30)))>>}

Images ==
    {Image(fs, q) : fs \in FaceLists, q \in {GoodQuality, BadQuality}}
    \cup {Image(<<Keypoints(478, f)>>, q) :
            f \in {TemplateFace, Move(TemplateFace, 168, Pt(11, 30))}, q \in Qualities}

(***************************************************************************)
(* State                                                                   *)
(***************************************************************************)
VARIABLES
    detector,   \* per module version: the cached detector, "null" or its creator
    pc,         \* per invocation of analyzeFace: where it is
    mod,        \* per invocation: the module version called
    arg,        \* per invocation: the image element it was given
    frame,      \* per invocation: the image handed to det.estimateFaces
    det,        \* per invocation: the detector getDetector returned
    outcome,    \* per invocation: the AnalysisResult returned or the error thrown
    image,      \* Home: useState image
    loading,    \* Home: useState loading
    result,     \* Home: useState result
    error,      \* Home: useState error
    ppc,        \* Home: where processImage is
    normCase    \* arguments and values of the function a pure-function specification applies

vars == <<detector, pc, mod, arg, frame, det, outcome,
          image, loading, result, error, ppc, normCase>>

engineVars == <<detector, pc, mod, arg, frame, det, outcome>>

pageVars == <<image, loading, result, error, ppc>>

\* a and b are callers of analyzeFace with an image element of their own; p is Home
Calls == {"a", "b", "p"}

NoOutcome == [kind |-> "none"]

\* the image an invocation's element shows now: Home's element shows the image state
Content(c) == IF c = "p" THEN image ELSE arg[c]

InitEngine ==
    /\ detector = [m \in Modules |-> "null"]
    /\ pc = [c \in Calls |-> "idle"]
    /\ mod = [c \in Calls |-> "basic"]
    /\ arg = [c \in Calls |-> Null]
    /\ frame = [c \in Calls |-> Null]
    /\ det = [c \in Calls |-> "null"]
    /\ outcome = [c \in Calls |-> NoOutcome]

InitPage ==
    /\ image = Null
    /\ loading = FALSE
    /\ result = Null
    /\ error = "null"
    /\ ppc = "idle"

InitNorm == normCase = [applied |-> FALSE]

(***************************************************************************)
(* analyzeFace                                                             *)
(***************************************************************************)
\* analyzeFace(img) is called and getDetector finds the cached detector:
\* the invocation goes on to det.estimateFaces(img)
getDetectorHit(c, m, img) ==
    /\ pc[c] \in {"idle", "done"}
    /\ detector[m] # "null"
    /\ mod' = [mod EXCEPT ![c] = m]
    /\ arg' = [arg EXCEPT ![c] = img]
    /\ det' = [det EXCEPT ![c] = detector[m]]
    /\ frame' = [frame EXCEPT ![c] = IF c = "p" THEN image ELSE img]
    /\ pc' = [pc EXCEPT ![c] = "estimating"]
    /\ outcome' = [outcome EXCEPT ![c] = NoOutcome]
    /\ UNCHANGED detector

\* analyzeFace(img) is called and getDetector finds no detector: createDetector is awaited
getDetectorMiss(c, m, img) ==
    /\ pc[c] \in {"idle", "done"}
    /\ detector[m] = "null"
    /\ mod' = [mod EXCEPT ![c] = m]
    /\ arg' = [arg EXCEPT ![c] = img]
    /\ det' = [det EXCEPT ![c] = "null"]
    /\ frame' = [frame EXCEPT ![c] = Null]
    /\ pc' = [pc EXCEPT ![c] = "creating"]
    /\ outcome' = [outcome EXCEPT ![c] = NoOutcome]
    /\ UNCHANGED detector

\* createDetector resolves: the new detector is stored in the module variable
\* and returned, and the invocation goes on to det.estimateFaces(img)
createDetectorResolved(c) ==
    /\ pc[c] = "creating"
    /\ detector' = [detector EXCEPT ![mod[c]] = c]
    /\ det' = [det EXCEPT ![c] = c]
    /\ frame' = [frame EXCEPT ![c] = Content(c)]
    /\ pc' = [pc EXCEPT ![c] = "estimating"]
    /\ UNCHANGED <<mod, arg, outcome>>

\* estimateFaces resolves and the rest of analyzeFace runs to its return or throw
estimateFacesResolved(c) ==
    /\ pc[c] = "estimating"
    /\ outcome' = [outcome EXCEPT ![c] =
           analyzeFaceBody(mod[c], estimateFaces(det[c], frame[c]), Content(c))]
    /\ pc' = [pc EXCEPT ![c] = "done"]
    /\ UNCHANGED <<detector, mod, arg, frame, det>>

\* the caller has consumed the settled promise and is ready to call again
callerContinues(c) ==
    /\ pc[c] = "done"
    /\ pc' = [pc EXCEPT ![c] = "idle"]
    /\ arg' = [arg EXCEPT ![c] = Null]
    /\ frame' = [frame EXCEPT ![c] = Null]
    /\ det' = [det EXCEPT ![c] = "null"]
    /\ outcome' = [outcome EXCEPT ![c] = NoOutcome]
    /\ UNCHANGED <<detector, mod>>

(***************************************************************************)
(* Home                                                                    *)
(***************************************************************************)
MsgNoFace == "NO_FACE_DETECTED: Please upload a clear photo of a face."

MsgOther == "An error occurred during analysis. Please try again."

\* the catch block of processImage
errorMessage(err) == IF err.message = "NO_FACE_DETECTED" THEN MsgNoFace ELSE MsgOther

\* reader.onload of handleFileUpload
handleFileUpload(img) ==
    /\ image' = img
    /\ result' = Null
    /\ error' = "null"
    /\ UNCHANGED <<loading, ppc, engineVars, normCase>>

\* GET RATINGS is clicked (the button is disabled when !image || loading):
\* processImage runs up to the 100 ms delay
processImageStart ==
    /\ image # Null
    /\ ~loading
    /\ loading' = TRUE
    /\ error' = "null"
    /\ ppc' = "delay"
    /\ UNCHANGED <<image, result, engineVars, normCase>>

\* the delay is over and processImage calls analyzeFace(imageRef.current)
processImageCallsCached ==
    /\ ppc = "delay"
    /\ getDetectorHit("p", mod["p"], image)
    /\ ppc' = "analyzing"
    /\ UNCHANGED <<image, loading, result, error, normCase>>

processImageCallsFirst ==
    /\ ppc = "delay"
    /\ getDetectorMiss("p", mod["p"], image)
    /\ ppc' = "analyzing"
    /\ UNCHANGED <<image, loading, result, error, normCase>>

processImageDetectorCreated ==
    /\ createDetectorResolved("p")
    /\ UNCHANGED <<pageVars, normCase>>

\* processImage with setLoading(false) at the end of the try block, not in a finally
processImageSettled_noFinally ==
    /\ ppc = "analyzing"
    /\ estimateFacesResolved("p")
    /\ IF outcome'["p"].kind = "return"
       THEN result' = [kind |-> "result", analysis |-> outcome'["p"].value]
            /\ error' = error /\ loading' = FALSE
       ELSE error' = errorMessage(outcome'["p"]) /\ result' = result /\ loading' = loading
    /\ ppc' = "idle"
    /\ UNCHANGED <<image, normCase>>

\* analyzeFace settles; processImage runs its try, catch and finally to the end
processImageSettled ==
    /\ ppc = "analyzing"
    /\ estimateFacesResolved("p")
    /\ IF outcome'["p"].kind = "return"
       THEN result' = [kind |-> "result", analysis |-> outcome'["p"].value] /\ error' = error
       ELSE error' = errorMessage(outcome'["p"]) /\ result' = result
    /\ loading' = FALSE
    /\ ppc' = "idle"
    /\ UNCHANGED <<image, normCase>>

(***************************************************************************)
(* Spec: one caller invoking either version of analyzeFace, again and      *)
(* again, on every sample image                                            *)
(***************************************************************************)
Init == InitEngine /\ InitPage /\ InitNorm

CallCached ==
    /\ pc["a"] = "idle"
    /\ \E m \in Modules, img \in Images : getDetectorHit("a", m, img)
    /\ UNCHANGED <<pageVars, normCase>>

CallFirst ==
    /\ pc["a"] = "idle"
    /\ \E m \in Modules, img \in Images : getDetectorMiss("a", m, img)
    /\ UNCHANGED <<pageVars, normCase>>

DetectorCreated == createDetectorResolved("a") /\ UNCHANGED <<pageVars, normCase>>

FacesEstimated == estimateFacesResolved("a") /\ UNCHANGED <<pageVars, normCase>>

CallerContinues == callerContinues("a") /\ UNCHANGED <<pageVars, normCase>>

Next == CallCached \/ CallFirst \/ DetectorCreated \/ FacesEstimated \/ CallerContinues

Spec == Init /\ [][Next]_vars

(***************************************************************************)
(* SpecConc: two callers with an image element each, interleaved at the    *)
(* await points of analyzeFace                                             *)
(***************************************************************************)
Callers == {"a", "b"}

ConcImages ==
    {Image(<<Keypoints(478, TemplateFace)>>, GoodQuality),
     Image(<<Keypoints(478, TemplateFace)>>, BadQuality),
     Image(<<Keypoints(478, Move(TemplateFace, 168, Pt(11, 30)))>>, GoodQuality),
     Image(<<>>, GoodQuality)}

ConcCallCached ==
    /\ \E c \in Callers, m \in Modules, img \in ConcImages :
          pc[c] = "idle" /\ getDetectorHit(c, m, img)
    /\ UNCHANGED <<pageVars, normCase>>

ConcCallFirst ==
    /\ \E c \in Callers, m \in Modules, img \in ConcImages :
          pc[c] = "idle" /\ getDetectorMiss(c, m, img)
    /\ UNCHANGED <<pageVars, normCase>>

ConcDetectorCreated ==
    (\E c \in Callers : createDetectorResolved(c)) /\ UNCHANGED <<pageVars, normCase>>

ConcFacesEstimated ==
    (\E c \in Callers : estimateFacesResolved(c)) /\ UNCHANGED <<pageVars, normCase>>

ConcCallerContinues ==
    (\E c \in Callers : callerContinues(c)) /\ UNCHANGED <<pageVars, normCase>>

NextConc ==
    \/ ConcCallCached
    \/ ConcCallFirst
    \/ ConcDetectorCreated
    \/ ConcFacesEstimated
    \/ ConcCallerContinues

SpecConc == Init /\ [][NextConc]_vars

(***************************************************************************)
(* SpecPage: Home with either version of analyzeFace behind its import     *)
(***************************************************************************)
PageImages ==
    {Image(<<Keypoints(478, TemplateFace)>>, GoodQuality),
     Image(<<Keypoints(478, Move(TemplateFace, 454, Pt(59, 30)))>>, BadQuality),
     Image(<<Keypoints(300, TemplateFace)>>, GoodQuality),
     Image(<<>>, GoodQuality)}

InitPageSpec ==
    /\ detector = [m \in Modules |-> "null"]
    /\ pc = [c \in Calls |-> "idle"]
    /\ \E m \in Modules : mod = [c \in Calls |-> m]
    /\ arg = [c \in Calls |-> Null]
    /\ frame = [c \in Calls |-> Null]
    /\ det = [c \in Calls |-> "null"]
    /\ outcome = [c \in Calls |-> NoOutcome]
    /\ InitPage
    /\ InitNorm

FileUploaded == \E img \in PageImages : handleFileUpload(img)

NextPage ==
    \/ FileUploaded
    \/ processImageStart
    \/ processImageCallsCached
    \/ processImageCallsFirst
    \/ processImageDetectorCreated
    \/ processImageSettled

SpecPage == InitPageSpec /\ [][NextPage]_vars

\* a step of processImageSettled, by what enables it and by the change of ppc
\* that no other action makes
processImageSettles == ppc = "analyzing" /\ pc["p"] = "estimating" /\ ppc' = "idle"

\* the page when the timer of the 100 ms delay fires and the calls to
\* createDetector and estimateFaces return; the last condition is weak
\* fairness of processImageSettled
SpecPageFair ==
    /\ SpecPage
    /\ WF_vars(processImageCallsCached)
    /\ WF_vars(processImageCallsFirst)
    /\ WF_vars(processImageDetectorCreated)
    /\ WF_ppc(processImageSettles)

(***************************************************************************)
(* SpecNorm: norm applied to sampled arguments                             *)
(***************************************************************************)
\* the (min, max) pairs of the calibration the code passes to norm
NormRanges ==
    {<<R(60, 100), R(85, 100)>>, <<R(8, 100), R(14, 100)>>, <<R(95, 100), R(125, 100)>>,
     <<R(65, 100), R(90, 100)>>, <<Num(50), Num(250)>>, <<Num(20), Num(70)>>,
     <<Num(80), Num(170)>>, <<R(8, 10), R(12, 10)>>, <<R(6, 10), R(9, 10)>>,
     <<R(20, 100), R(30, 100)>>}

NormArgs ==
    {R(k, 20) : k \in -2 .. 27}
    \cup {Num(k) : k \in {19, 20, 21, 45, 50, 70, 80, 125, 170, 250, 251}}
    \cup {PosInf, NegInf}

InitNormSpec ==
    /\ InitEngine
    /\ InitPage
    /\ \E x1 \in NormArgs, x2 \in NormArgs, r \in NormRanges :
          normCase = [applied |-> FALSE, x1 |-> x1, x2 |-> x2, min |-> r[1], max |-> r[2],
                      y1 |-> NaN, y2 |-> NaN]

NormApplied ==
    /\ ~normCase.applied
    /\ normCase' = [normCase EXCEPT !.applied = TRUE,
                                    !.y1 = norm(normCase.x1, normCase.min, normCase.max),
                                    !.y2 = norm(normCase.x2, normCase.min, normCase.max)]
    /\ UNCHANGED <<engineVars, pageVars>>

NextNorm == NormApplied

SpecNorm == InitNormSpec /\ [][NextNorm]_vars

(***************************************************************************)
(* SpecSymmetry: calculateSymmetry applied to two triads, the left point   *)
(* dL to the left and the right point dR to the right of the centre        *)
(***************************************************************************)
MaxDist == 6

InitSymmetrySpec ==
    /\ InitEngine
    /\ InitPage
    /\ \E l1 \in 0 .. MaxDist, r1 \in 0 .. MaxDist, l2 \in 0 .. MaxDist, r2 \in 0 .. MaxDist :
          normCase = [applied |-> FALSE, dL1 |-> l1, dR1 |-> r1, dL2 |-> l2, dR2 |-> r2,
                      s1 |-> NaN, s2 |-> NaN]

SymmetryApplied ==
    /\ ~normCase.applied
    /\ normCase' =
          [normCase EXCEPT
              !.applied = TRUE,
              !.s1 = calculateSymmetry(Pt(MaxDist, 0), Pt(MaxDist - normCase.dL1, 0),
                                       Pt(MaxDist + normCase.dR1, 0)),
              !.s2 = calculateSymmetry(Pt(MaxDist, 0), Pt(MaxDist - normCase.dL2, 0),
                                       Pt(MaxDist + normCase.dR2, 0))]
    /\ UNCHANGED <<engineVars, pageVars>>

NextSymmetry == SymmetryApplied

SpecSymmetry == InitSymmetrySpec /\ [][NextSymmetry]_vars

(***************************************************************************)
(* SpecGolden: calculateGoldenRatioScore applied to a ratio around PHI,    *)
(* and the golden_ratio facet computed for a face                          *)
(***************************************************************************)
MaxGoldenStep == 24

\* ratios in steps of 0.025 around PHI, and the quotients of degenerate distances
GoldenRatios ==
    {R(1618 + 25 * j, 1000) : j \in (0 - MaxGoldenStep) .. MaxGoldenStep}
        \cup {Num(0), PosInf, NaN}

InitGoldenSpec ==
    /\ InitEngine
    /\ InitPage
    /\ \E r \in GoldenRatios, f \in FaceVariants :
          normCase = [applied |-> FALSE, ratio |-> r, face |-> Keypoints(478, f),
                      score |-> NaN, facet |-> NaN]

GoldenApplied ==
    /\ ~normCase.applied
    /\ normCase' =
          [normCase EXCEPT
              !.applied = TRUE,
              !.score = calculateGoldenRatioScore(normCase.ratio),
              !.facet = extendedFacets(normCase.face).golden_ratio]
    /\ UNCHANGED <<engineVars, pageVars>>

NextGolden == GoldenApplied

SpecGolden == InitGoldenSpec /\ [][NextGolden]_vars

(***************************************************************************)
(* Properties                                                              *)
(***************************************************************************)
Returned(c) == pc[c] = "done" /\ outcome[c].kind = "return"

Threw(c) == pc[c] = "done" /\ outcome[c].kind = "throw"

\* the detector found a face whose mesh has every landmark the version reads
HasLandmarks(c) ==
    /\ pc[c] = "done"
    /\ Len(frame[c].faces) > 0
    /\ ~MissingKeypoint(mod[c], frame[c].faces[1])

QualityInRange(q) == q.sharpness >= 0 /\ q.brightness \in 0 .. 255 /\ q.contrast >= 0

\* the distances the version divides by
ReferenceDistances(m, keypoints) ==
    LET P(i) == keypoints.pts[i]
        D(i, j) == dist(P(i), P(j))
    IN  {D(234, 454), D(10, 152), D(172, 397)}
        \cup (IF m = "basic" THEN {}
              ELSE {D(168, 152),
                    Add(Add(D(10, 9), D(9, 0)), D(0, 152)),
                    Add(Add(Add(Add(D(234, 33), D(33, 133)), D(133, 362)), D(362, 263)),
                        D(263, 454)),
                    Add(D(33, 133), D(362, 263)),
                    D(61, 291)})

ZeroReference(c) == Num(0) \in ReferenceDistances(mod[c], frame[c].faces[1])

IsScore(v) == IsFinite(v) /\ IsInteger(v) /\ 0 <= v[1] /\ v[1] <= 100

\* C1: for valid inputs (every required landmark present, quality metrics in
\* their ranges, and, to read the claim in its favour, no zero reference
\* distance) every facet score, overall and potential of a returned
\* AnalysisResult is an integer in [0,100].
C1_ScoresInRange ==
    \A c \in Calls :
        (Returned(c) /\ QualityInRange(Content(c).q) /\ ~ZeroReference(c))
            => \A f \in ScoreFields(mod[c]) : IsScore(outcome[c].value[f])

WarningTags == <<"low_sharpness", "bad_brightness", "low_contrast">>

TagPenalty(tag) == IF tag = "low_sharpness" THEN 15 ELSE 10

RECURSIVE SumPenalty(_)
SumPenalty(w) == IF w = <<>> THEN 0 ELSE TagPenalty(Head(w)) + SumPenalty(Tail(w))

TagRank(tag) == CHOOSE i \in 1 .. 3 : WarningTags[i] = tag

\* C2: the warnings hold low_sharpness iff sharpness <= 150, bad_brightness iff
\* brightness < 90 or > 160, low_contrast iff contrast <= 35; each tag at most
\* once, in the order sharpness, brightness, contrast, and no other tag; the
\* penalty is 15 + 10 + 10 over the tags present (100/200/20 gives all three, 35).
C2_Warnings ==
    \A c \in Calls :
        Returned(c) =>
            LET q == Content(c).q
                w == outcome[c].value.warnings
                tags == Range(w)
            IN  /\ ("low_sharpness" \in tags) <=> (q.sharpness <= 150)
                /\ ("bad_brightness" \in tags) <=> (q.brightness < 90 \/ q.brightness > 160)
                /\ ("low_contrast" \in tags) <=> (q.contrast <= 35)
                /\ tags \subseteq Range(WarningTags)
                /\ \A i, j \in DOMAIN w : i < j => TagRank(w[i]) < TagRank(w[j])
                /\ outcome[c].photo_penalty = SumPenalty(w)
                /\ (q = BadQuality) => (w = WarningTags /\ outcome[c].photo_penalty = 35)

C2_Witness ==
    \E c \in Calls :
        /\ Returned(c)
        /\ Content(c).q = BadQuality
        /\ outcome[c].value.warnings = WarningTags
        /\ outcome[c].photo_penalty = 35

\* C3: potential = clamp(overall + penalty, 0, 100) in both versions, hence
\* potential >= overall in every result, and potential == overall when no
\* warning is raised (200/120/50).
C3_Potential ==
    \A c \in Calls :
        Returned(c) =>
            LET v == outcome[c].value
            IN  /\ v.potential = clamp(Add(v.overall, Num(outcome[c].photo_penalty)),
                                       Num(0), Num(100))
                /\ Le(v.overall, v.potential)
                /\ (v.warnings = <<>>) => (~IsNaN(v.overall) /\ v.potential = v.overall)

\* C4: a zero reference distance makes analyzeFace fail with
\* DegenerateGeometryError, and no returned AnalysisResult holds NaN or
\* Infinity in a score.
C4_DegenerateGeometry ==
    \A c \in Calls :
        /\ (HasLandmarks(c) /\ ZeroReference(c))
               => (Threw(c) /\ outcome[c].message = "DegenerateGeometryError")
        /\ Returned(c) => \A f \in ScoreFields(mod[c]) : IsFinite(outcome[c].value[f])

\* C5: a landmark sequence shorter than the declared topology, or one that
\* lacks a required index, makes analyzeFace fail with a ContractError and
\* return no AnalysisResult.
C5_ContractError ==
    \A c \in Calls :
        (/\ pc[c] = "done"
         /\ Len(frame[c].faces) > 0
         /\ \/ \A n \in MeshLengths : frame[c].faces[1].len < n
            \/ MissingKeypoint(mod[c], frame[c].faces[1]))
            => (Threw(c) /\ outcome[c].message = "ContractError")

\* C6: with zero faces analyzeFace throws NO_FACE_DETECTED before a landmark
\* is read, before getQualityMetrics is called and so before any score; the
\* page then shows the NO_FACE_DETECTED message and sets no new result.
C6_NoFace ==
    [][(ppc = "analyzing" /\ ppc' = "idle" /\ Len(frame["p"].faces) = 0)
          => /\ outcome'["p"] = Thrown("NO_FACE_DETECTED", FALSE, FALSE)
             /\ error' = MsgNoFace
             /\ result' = result]_vars

C6_Witness ==
    /\ ppc = "idle"
    /\ pc["p"] = "done"
    /\ Len(frame["p"].faces) = 0
    /\ outcome["p"].message = "NO_FACE_DETECTED"
    /\ error = MsgNoFace

C8_NoInterference ==
    \A c \in Calls :
        /\ pc[c] = "done"
               => outcome[c] = analyzeFaceBody(mod[c], estimateFaces(c, arg[c]), arg[c])
        /\ det[c] \in {"null", c}

\* the value (x - min) / (max - min) * 100, in integers
Linear(x, min, max) ==
    R((x[1] * min[2] - min[1] * x[2]) * max[2] * 100,
      (max[1] * min[2] - min[1] * max[2]) * x[2])

\* C9: with min < max, norm is non-decreasing in x, 0 for x <= min, 100 for
\* x >= max, and (x - min) / (max - min) * 100 in between.
C9_Norm ==
    normCase.applied =>
        LET n == normCase
        IN  /\ Le(n.x1, n.x2) => Le(n.y1, n.y2)
            /\ Le(n.x1, n.min) => n.y1 = Num(0)
            /\ Le(n.max, n.x1) => n.y1 = Num(100)
            /\ (Le(n.min, n.x1) /\ Le(n.x1, n.max)) => n.y1 = Linear(n.x1, n.min, n.max)

\* an argument strictly inside the range, and a larger one
C9_Witness ==
    /\ normCase.applied
    /\ Lt(normCase.min, normCase.x1)
    /\ Lt(normCase.x1, normCase.x2)
    /\ Lt(normCase.x2, normCase.max)
    /\ Lt(Num(0), normCase.y1)
    /\ Lt(normCase.y1, normCase.y2)
    /\ Lt(normCase.y2, Num(100))

\* the weights of a version, in hundredths
Weight(m, f) ==
    IF m = "basic"
    THEN (IF f = "jawline" THEN 30 ELSE IF f = "skin_quality" THEN 20 ELSE 25)
    ELSE (IF f \in {"jawline", "cheekbones", "skin_quality", "masculinity"} THEN 15
          ELSE IF f \in {"symmetry", "eye_score"} THEN 10 ELSE 5)

RECURSIVE WeightedSum(_, _, _)
WeightedSum(m, v, fs) ==
    IF fs = {} THEN 0
    ELSE LET f == CHOOSE g \in fs : TRUE
         IN  Weight(m, f) * v[f][1] + WeightedSum(m, v, fs \ {f})

\* C10: overall is the rounded weighted sum of the facets under the weight
\* table of the version (basic 0.30/0.25/0.20/0.25; extended 0.15 x 4,
\* 0.10 x 2, 0.05 x 4); the weights sum to 1, so overall always lies between
\* the smallest and the largest facet score.
C10_Overall ==
    \A c \in Calls :
        Returned(c) =>
            LET v == outcome[c].value
                fs == FacetFields(mod[c])
            IN  /\ WeightedSum(mod[c], [f \in fs |-> Num(1)], fs) = 100
                /\ (\A f \in fs : IsInteger(v[f]))
                       => /\ IsInteger(v.overall)
                          /\ 100 * v.overall[1] - 50 <= WeightedSum(mod[c], v, fs)
                          /\ WeightedSum(mod[c], v, fs) < 100 * v.overall[1] + 50
                /\ \E f \in fs : Le(v[f], v.overall)
                /\ \E f \in fs : Le(v.overall, v[f])

\* C11 as stated: the symmetry sub-score for distances dL and dR is 100
\* exactly when dL = dR, and strictly decreases as |dL - dR| grows.
C11_AsStated ==
    normCase.applied =>
        LET n == normCase
        IN  /\ (n.s1 = Num(100)) <=> (n.dL1 = n.dR1)
            /\ (IAbs(n.dL1 - n.dR1) < IAbs(n.dL2 - n.dR2)) => Lt(n.s2, n.s1)

\* C11, amended: the symmetry sub-score for distances dL and dR is 100 exactly
\* when dL = dR, and strictly decreases as |dL - dR| grows relative to the mean
\* (dL + dR) / 2, so in particular as |dL - dR| grows at a fixed mean.
C11_Symmetry ==
    normCase.applied =>
        LET n == normCase
            diff1 == IAbs(n.dL1 - n.dR1)
            diff2 == IAbs(n.dL2 - n.dR2)
            sum1 == n.dL1 + n.dR1
            sum2 == n.dL2 + n.dR2
        IN  /\ (n.s1 = Num(100)) <=> (n.dL1 = n.dR1)
            /\ (sum1 > 0 /\ sum2 > 0 /\ diff1 * sum2 < diff2 * sum1) => Lt(n.s2, n.s1)
            /\ (sum1 = sum2 /\ diff1 < diff2) => Lt(n.s2, n.s1)

\* equal distances against unequal ones of the same mean
C11_Witness ==
    /\ normCase.applied
    /\ normCase.dL1 = normCase.dR1
    /\ normCase.dL1 > 0
    /\ normCase.s1 = Num(100)
    /\ normCase.dL2 # normCase.dR2
    /\ normCase.dL1 + normCase.dR1 = normCase.dL2 + normCase.dR2
    /\ Lt(normCase.s2, normCase.s1)

\* the three segments of the facial thirds: forehead to browline, browline to
\* nose tip, nose tip to chin
ThirdSegments(keypoints) ==
    LET P(i) == keypoints.pts[i]
    IN  <<dist(P(10), P(9)), dist(P(9), P(0)), dist(P(0), P(152))>>

\* the facial-thirds score as the claim states it, for segments of lengths
\* a, b, c, in terms of three times the worst deviation from their mean
ThirdsAsClaimed(a, b, c) ==
    LET sum == a + b + c
        Dev3(x) == IAbs(3 * x - sum)
        maxDev3 == IF Dev3(a) >= Dev3(b) /\ Dev3(a) >= Dev3(c) THEN Dev3(a)
                   ELSE IF Dev3(b) >= Dev3(c) THEN Dev3(b) ELSE Dev3(c)
    IN  IF a = b /\ b = c THEN Num(100)
        ELSE IF 3 * maxDev3 >= sum THEN Num(0)
        ELSE MathRound(Sub(Num(100), R(300 * maxDev3, sum)))

\* C12: the facial-thirds score is 100 when the three segments have equal
\* length, 0 whenever the worst segment's absolute deviation from their mean is
\* at least 1/3 of the mean, and round(100 - 300 * dev_max / mean) in between.
C12_FacialThirds ==
    \A c \in Calls :
        (Returned(c) /\ mod[c] = "extended") =>
            LET segs == ThirdSegments(frame[c].faces[1])
            IN  outcome[c].value.facial_thirds = ThirdsAsClaimed(segs[1][1], segs[2][1], segs[3][1])

\* the golden-ratio sub-score as the claim states it; a NaN ratio (0 / 0) has
\* no distance to 1.618 and no score
GoldenAsClaimed(ratio) ==
    LET deviation == MathAbs(Sub(ratio, R(1618, 1000)))
    IN  IF IsNaN(ratio) THEN NaN
        ELSE IF Le(R(1, 2), deviation) THEN Num(0)
        ELSE Sub(Num(100), Mul(Num(200), deviation))

\* C13: calculateGoldenRatioScore(ratio) is 100 at ratio = 1.618, 0 whenever
\* |ratio - 1.618| >= 0.5 and linear in |ratio - 1.618| in between; the
\* golden_ratio facet is the rounded mean of the sub-scores of face height /
\* face width and of upper / lower face segment.
C13_GoldenRatio ==
    normCase.applied =>
        LET P(i) == normCase.face.pts[i]
            faceHeightToWidth == Div(dist(P(10), P(152)), dist(P(234), P(454)))
            upperToLowerFace == Div(dist(P(10), P(168)), dist(P(168), P(152)))
        IN  /\ normCase.score = GoldenAsClaimed(normCase.ratio)
            /\ (normCase.ratio = R(1618, 1000)) => (normCase.score = Num(100))
            /\ normCase.facet =
                   MathRound(Div(Add(GoldenAsClaimed(faceHeightToWidth),
                                     GoldenAsClaimed(upperToLowerFace)), Num(2)))

\* the ideal ratio scored 100, on a face whose facet lies strictly inside 0..100
C13_Witness ==
    /\ normCase.applied
    /\ normCase.ratio = PHI
    /\ normCase.score = Num(100)
    /\ IsFinite(normCase.facet)
    /\ Lt(Num(0), normCase.facet)
    /\ Lt(normCase.facet, Num(100))

\* the detectors of version m that exist: the cached one, those invocations
\* use, and those whose creation is awaited
DetectorsOf(m) ==
    ({detector[m]} \ {"null"})
        \cup {det[c] : c \in {x \in Calls : mod[x] = m /\ det[x] # "null"}}
        \cup {c \in Calls : mod[c] = m /\ pc[c] = "creating"}

\* C14: across any interleaving of analyzeFace calls, also of calls that start
\* before the first creation has resolved, createDetector is invoked at most
\* once and every call uses the same detector instance.
C14_SingleDetector ==
    \A m \in Modules :
        /\ Cardinality(DetectorsOf(m)) <= 1
        /\ \A c1, c2 \in Calls :
               (mod[c1] = m /\ mod[c2] = m /\ det[c1] # "null" /\ det[c2] # "null")
                   => det[c1] = det[c2]

\* result holds the analysis that analyzeFace returns for the image img alone
ResultOf(img) ==
    /\ img # Null
    /\ LET alone == analyzeFaceBody(mod["p"], img.faces, img)
       IN  alone.kind = "return" /\ result = [kind |-> "result", analysis |-> alone.value]

\* C15: in the page a displayed result belongs to the displayed image: the
\* analysis of an earlier image is never stored in result after an upload
\* cleared it, and the landmarks and the quality metrics of one result are
\* taken from the same image.
C15_ResultOfDisplayedImage ==
    (result # Null) => (ResultOf(image) /\ \E img \in PageImages : ResultOf(img))

\* C16: in the page, once a processImage call has finished, error and result
\* are never both non-null: a failed analysis leaves no result displayed and a
\* successful analysis leaves no error displayed.
C16_ErrorOrResult ==
    (ppc = "idle" /\ pc["p"] = "done") => ~(error # "null" /\ result # Null)

\* C17: in the page loading is true exactly while a processImage call is in
\* flight; every processImage call that sets loading to true eventually sets
\* it back to false, on success and on every failure of analyzeFace (given
\* that the detector calls return); and while loading is true GET RATINGS
\* starts no second analysis, so at most one analyzeFace call is in flight.
C17_Loading ==
    /\ [](loading <=> ppc # "idle")
    /\ [](pc["p"] \in {"creating", "estimating"} => (loading /\ ppc = "analyzing"))
    /\ [][(ppc' = "delay" /\ ppc # "delay") => (ppc = "idle" /\ ~loading /\ loading')]_vars
    /\ (loading ~> ~loading)

\* a processImage call has ended on a failure other than NO_FACE_DETECTED
C17_Witness ==
    /\ ppc = "idle"
    /\ ~loading
    /\ Threw("p")
    /\ error = MsgOther

====
